---- MODULE Spec2Model ----
(***************************************************************************)
(* Model of cli/src/model.rs: the WorkspaceManager of mounttab.            *)
(*                                                                         *)
(* One WorkspaceManager (a Vec<Workspace> behind a tokio RwLock), callers  *)
(* of load_workspaces, browser sessions each running browser_connected,    *)
(* and the watch tasks that start() spawns.  The parts of the crate that   *)
(* are not in model.rs (Workspace::new_from_fs, apply_action_to_fs,        *)
(* file_watcher::async_watch, the code that creates the channels) are      *)
(* modelled at their interface.                                            *)
(***************************************************************************)
EXTENDS Naturals, Sequences, FiniteSets

(* ------------------------------ bounds --------------------------------- *)

\* load_workspaces pushes while the registry holds fewer workspaces than this.
MaxWorkspaces == 1
\* Messages a browser sends on one connection.
MaxMsgs == 2
\* Capacity of a browser's mpsc channel (created by the caller of
\* browser_connected).
OutCap == 1

\* Browser sessions (calls of browser_connected).
Sessions == {1}
\* Concurrent callers of load_workspaces.
Loaders == {1, 2}

(* ------------------------------- data ---------------------------------- *)

\* The directory load_workspaces scans (model.rs:89).
WorkspacePath == "/home/tylord/dev/tabfs-rs/test"

TabNames == {"x", "y"}
NewUrl == "http://a"
Urls == {"", NewUrl}

Absent == [present |-> FALSE, url |-> "", is_open |-> FALSE]
TabDir(url, open) == [present |-> TRUE, url |-> url, is_open |-> open]

\* enum WorkspaceAction (model.rs:69-77).
OpenTab(n) == [kind |-> "OpenTab", name |-> n, url |-> ""]
CloseTab(n) == [kind |-> "CloseTab", name |-> n, url |-> ""]
ChangeTabUrl(n, u) == [kind |-> "ChangeTabUrl", name |-> n, url |-> u]
CreateTab(n) == [kind |-> "CreateTab", name |-> n, url |-> ""]
RemoveTab(n) == [kind |-> "RemoveTab", name |-> n, url |-> ""]

\* Actions a browser sends, and changes another process makes on disk.
ClientActions == {CreateTab("x")}
ExternalActions == {CreateTab("y")}

\* enum FromBrowserMessage (model.rs:18-23).
StartWorkspaceMsg(id) ==
    [type |-> "StartWorkspace", id |-> id, action |-> CreateTab("x")]
WorkspaceActionMsg(id, a) ==
    [type |-> "WorkspaceAction", id |-> id, action |-> a]

\* Ids a browser may name: the ids the registry can hold, and one more.
ClientIds == 1..(MaxWorkspaces + 1)
FromBrowserMessages ==
    {StartWorkspaceMsg(id) : id \in ClientIds}
        \cup {WorkspaceActionMsg(id, a) : id \in ClientIds, a \in ClientActions}

NoMsg == [type |-> "None", id |-> 0, action |-> CreateTab("x")]
NoWorkspace == [id |-> 0, name |-> "", path |-> "", tabs |-> <<>>]

\* struct Tab (model.rs:61-67).
Tab(n, d) == [name |-> n, url |-> d.url, is_open |-> d.is_open]

(* ------------------------------ state ---------------------------------- *)

VARIABLES
    workspaces,          \* WorkspaceManager.workspaces: the Vec behind the RwLock
    lockWriter,          \* loader holding the RwLock's write guard, 0 if none
    lockReaders,         \* sessions holding a read guard of the RwLock
    loaderPc,            \* position of each load_workspaces caller
    disk,                \* the directory at WorkspacePath: tab name -> tab dir
    pc,                  \* position of each session in browser_connected/start
    snapshot,            \* browser_connected's local `workspaces` (line 99)
    cur,                 \* the message the loop is handling
    workspace,           \* the local `workspace` a handler resolved
    ignore_next_action,  \* the session's Arc<RwLock<bool>> (line 112)
    inbound,             \* browser_rx: messages received, not yet taken
    arrived,             \* history: messages in the order the browser sent them
    processed,           \* history: messages in the order the loop took them
    inEnded,             \* browser_rx has ended (its senders are dropped)
    outClosed,           \* the receiver of browser.tx is dropped
    outLen,              \* messages queued in browser.tx's channel
    sent,                \* history: messages accepted by browser.tx, in order
    failedSends,         \* history: sends that returned Err, per session
    tasks                \* the watch tasks spawned by start (lines 186-214)

storeVars == <<workspaces, lockWriter, lockReaders, loaderPc>>
fsVars == <<disk>>
loopVars == <<pc, snapshot, cur, workspace, ignore_next_action>>
inVars == <<inbound, arrived, processed, inEnded>>
outVars == <<outClosed, outLen, sent, failedSends>>
vars == <<storeVars, fsVars, loopVars, inVars, outVars, tasks>>

Init ==
    /\ workspaces = <<>>
    /\ lockWriter = 0
    /\ lockReaders = {}
    /\ loaderPc = [l \in Loaders |-> "idle"]
    /\ disk = [n \in TabNames |-> Absent]
    /\ pc = [s \in Sessions |-> "new"]
    /\ snapshot = [s \in Sessions |-> <<>>]
    /\ cur = [s \in Sessions |-> NoMsg]
    /\ workspace = [s \in Sessions |-> NoWorkspace]
    /\ ignore_next_action = [s \in Sessions |-> FALSE]
    /\ inbound = [s \in Sessions |-> <<>>]
    /\ arrived = [s \in Sessions |-> <<>>]
    /\ processed = [s \in Sessions |-> <<>>]
    /\ inEnded = [s \in Sessions |-> FALSE]
    /\ outClosed = [s \in Sessions |-> FALSE]
    /\ outLen = [s \in Sessions |-> 0]
    /\ sent = [s \in Sessions |-> <<>>]
    /\ failedSends = [s \in Sessions |-> 0]
    /\ tasks = <<>>

(* ----------------------- the workspace registry ------------------------ *)

\* The scan's order of the tab directories.
TabOrder == <<"x", "y">>

\* tabs of a Workspace built from a directory: one Tab per tab directory.
TabsOf(d) ==
    LET present(n) == d[n].present
        names == SelectSeq(TabOrder, present)
    IN  [i \in DOMAIN names |-> Tab(names[i], d[names[i]])]

\* Workspace::new_from_fs(path), called at line 88: scans the directory.
\* Ids are unique in the registry.
new_from_fs(path, d, registry) ==
    [id |-> Len(registry) + 1, name |-> "test", path |-> path, tabs |-> TabsOf(d)]

\* Mutant of CanWrite: the write guard is handed out without waiting.
CanWriteUnguarded == TRUE

\* RwLock::write().await returns (line 87) when no guard is held.
CanWrite == lockWriter = 0 /\ lockReaders = {}

\* RwLock::read().await returns (line 218) when no write guard is held.
CanRead == lockWriter = 0

\* load_workspaces, line 87: take the write guard.
LoadAcquire(l) ==
    /\ loaderPc[l] = "idle"
    /\ Len(workspaces) < MaxWorkspaces
    /\ CanWrite
    /\ lockWriter' = l
    /\ loaderPc' = [loaderPc EXCEPT ![l] = "locked"]
    /\ UNCHANGED <<workspaces, lockReaders, fsVars, loopVars, inVars, outVars, tasks>>

\* load_workspaces, lines 88-92: push the scanned workspace, drop the guard.
LoadPush(l) ==
    /\ loaderPc[l] = "locked"
    /\ workspaces' = Append(workspaces, new_from_fs(WorkspacePath, disk, workspaces))
    /\ lockWriter' = IF lockWriter = l THEN 0 ELSE lockWriter
    /\ loaderPc' = [loaderPc EXCEPT ![l] = "idle"]
    /\ UNCHANGED <<lockReaders, fsVars, loopVars, inVars, outVars, tasks>>

\* Iterator::find over a Vec<Workspace> (lines 124-127, 159-161): the
\* indices of the workspaces with that id; find yields the first.
Matches(list, id) == {i \in DOMAIN list : list[i].id = id}
Found(list, id) == Matches(list, id) # {}
Find(list, id) ==
    LET m == Matches(list, id)
    IN  list[CHOOSE i \in m : \A j \in m : i <= j]

(* ------------------------- the browser channel ------------------------- *)

\* struct ApiWorkspace (model.rs:47-52), built at lines 174-178.
ApiWorkspace(w) == [id |-> w.id, name |-> w.name, tabs |-> w.tabs]

\* enum ToBrowserMessage (model.rs:10-16).
AllWorkspacesMessage(list) == [type |-> "AllWorkspaces", workspaces |-> list]
LoadWorkspaceMessage(w) == [type |-> "LoadWorkspace", workspace |-> ApiWorkspace(w)]
WorkspaceActionMessage(a) == [type |-> "WorkspaceAction", action |-> a]

\* An entry of the history `sent`: the message, and for a forwarded action
\* the watch task that forwarded it and who changed the directory
\* (a session, or 0 for another process).
Entry(m, t, c) == [msg |-> m, task |-> t, cause |-> c]

\* browser.tx.send(m).await: Err when the receiver is dropped, otherwise it
\* waits for room in the channel and queues the message.
ChannelSend(s, e) ==
    /\ outClosed[s] \/ outLen[s] < OutCap
    /\ IF outClosed[s]
         THEN /\ failedSends' = [failedSends EXCEPT ![s] = @ + 1]
              /\ UNCHANGED <<sent, outLen>>
         ELSE /\ sent' = [sent EXCEPT ![s] = Append(@, e)]
              /\ outLen' = [outLen EXCEPT ![s] = @ + 1]
              /\ UNCHANGED failedSends
    /\ UNCHANGED outClosed

\* The browser takes a message from its channel.
BrowserReceive(s) ==
    /\ outLen[s] > 0
    /\ outLen' = [outLen EXCEPT ![s] = @ - 1]
    /\ UNCHANGED <<storeVars, fsVars, loopVars, inVars, outClosed, sent, failedSends, tasks>>

\* The browser sends a message on its connection.
BrowserSend(s, m) ==
    /\ pc[s] # "new"
    /\ ~inEnded[s]
    /\ Len(arrived[s]) < MaxMsgs
    /\ inbound' = [inbound EXCEPT ![s] = Append(@, m)]
    /\ arrived' = [arrived EXCEPT ![s] = Append(@, m)]
    /\ UNCHANGED <<storeVars, fsVars, loopVars, processed, inEnded, outVars, tasks>>

\* The browser disconnects: the receiver of browser.tx is dropped and the
\* inbound stream ends once the messages already received are taken.
BrowserDisconnect(s) ==
    /\ pc[s] # "new"
    /\ ~outClosed[s]
    /\ outClosed' = [outClosed EXCEPT ![s] = TRUE]
    /\ inEnded' = [inEnded EXCEPT ![s] = TRUE]
    /\ outLen' = [outLen EXCEPT ![s] = 0]
    /\ UNCHANGED <<storeVars, fsVars, loopVars, inbound, arrived, processed,
                   sent, failedSends, tasks>>

(* -------------------------- browser_connected -------------------------- *)

\* browser_connected is called for a new browser; get_all_workspaces
\* (line 99, lines 217-219) takes a read guard.
Connect(s) ==
    /\ pc[s] = "new"
    /\ CanRead
    /\ lockReaders' = lockReaders \cup {s}
    /\ pc' = [pc EXCEPT ![s] = "conn_read"]
    /\ UNCHANGED <<workspaces, lockWriter, loaderPc, fsVars, snapshot, cur, workspace,
                   ignore_next_action, inVars, outVars, tasks>>

\* get_all_workspaces (line 218): copy the Vec, drop the read guard.
ConnectSnapshot(s) ==
    /\ pc[s] = "conn_read"
    /\ snapshot' = [snapshot EXCEPT ![s] = workspaces]
    /\ lockReaders' = lockReaders \ {s}
    /\ pc' = [pc EXCEPT ![s] = "send_all"]
    /\ UNCHANGED <<workspaces, lockWriter, loaderPc, fsVars, cur, workspace,
                   ignore_next_action, inVars, outVars, tasks>>

\* Mutant of ConnectMessage: the registry is read again when sending.
ConnectMessageLive(s) == AllWorkspacesMessage(workspaces)

\* The message built at line 101.
ConnectMessage(s) == AllWorkspacesMessage(snapshot[s])

\* Lines 103-112: send AllWorkspaces (an Err is printed), create the flag.
SendAllWorkspaces(s) ==
    /\ pc[s] = "send_all"
    /\ ChannelSend(s, Entry(ConnectMessage(s), 0, 0))
    /\ ignore_next_action' = [ignore_next_action EXCEPT ![s] = FALSE]
    /\ pc' = [pc EXCEPT ![s] = "idle"]
    /\ UNCHANGED <<storeVars, fsVars, snapshot, cur, workspace, inVars, tasks>>

\* Mutant of NextMessage: the newest message received is taken.
NextMessageNewest(q) == q[Len(q)]

\* browser_rx.next() (line 114): the oldest message received.
NextMessage(q) == Head(q)
Remaining(q) == Tail(q)

\* Lines 114-131: take the next message. StartWorkspace calls start; a
\* WorkspaceAction is resolved in the snapshot of line 99, and the
\* unwrap_or_else of lines 128-130 panics when the id is not in it.
Receive(s) ==
    /\ pc[s] = "idle"
    /\ inbound[s] # <<>>
    /\ LET m == NextMessage(inbound[s]) IN
        /\ inbound' = [inbound EXCEPT ![s] = Remaining(@)]
        /\ processed' = [processed EXCEPT ![s] = Append(@, m)]
        /\ cur' = [cur EXCEPT ![s] = m]
        /\ IF m.type = "StartWorkspace"
             THEN /\ pc' = [pc EXCEPT ![s] = "start_lock"]
                  /\ UNCHANGED workspace
             ELSE IF Found(snapshot[s], m.id)
                    THEN /\ workspace' = [workspace EXCEPT ![s] = Find(snapshot[s], m.id)]
                         /\ pc' = [pc EXCEPT ![s] = "act_flag"]
                    ELSE /\ pc' = [pc EXCEPT ![s] = "panicked"]
                         /\ UNCHANGED workspace
    /\ UNCHANGED <<storeVars, fsVars, snapshot, ignore_next_action, arrived, inEnded,
                   outVars, tasks>>

\* Mutant of LoopEnd: the function joins the watch tasks it spawned before
\* it returns.
LoopEndJoinTasks(s) ==
    /\ pc[s] = "idle"
    /\ inbound[s] = <<>>
    /\ inEnded[s]
    /\ \A t \in DOMAIN tasks :
        tasks[t].owner = s => ~(tasks[t].watching \/ tasks[t].rx # <<>>)
    /\ pc' = [pc EXCEPT ![s] = "done"]
    /\ UNCHANGED <<storeVars, fsVars, snapshot, cur, workspace, ignore_next_action,
                   inVars, outVars, tasks>>

\* Line 114: browser_rx.next() yields None, the loop and the function end.
LoopEnd(s) ==
    /\ pc[s] = "idle"
    /\ inbound[s] = <<>>
    /\ inEnded[s]
    /\ pc' = [pc EXCEPT ![s] = "done"]
    /\ UNCHANGED <<storeVars, fsVars, snapshot, cur, workspace, ignore_next_action,
                   inVars, outVars, tasks>>

\* Mutant of SetIgnore: the flag is left as it is before the apply.
SetIgnoreSkipped(s) ==
    /\ pc[s] = "act_flag"
    /\ pc' = [pc EXCEPT ![s] = "act_apply"]
    /\ UNCHANGED <<storeVars, fsVars, snapshot, cur, workspace, ignore_next_action,
                   inVars, outVars, tasks>>

\* Lines 134-135: take the flag's write guard (no other task takes it) and
\* set the flag.
SetIgnore(s) ==
    /\ pc[s] = "act_flag"
    /\ ignore_next_action' = [ignore_next_action EXCEPT ![s] = TRUE]
    /\ pc' = [pc EXCEPT ![s] = "act_apply"]
    /\ UNCHANGED <<storeVars, fsVars, snapshot, cur, workspace, inVars, outVars, tasks>>

(* --------------------------- the filesystem ---------------------------- *)

\* Whether a WorkspaceAction can be carried out on a directory: CreateTab
\* makes a tab directory that is not there, the others act on one that is.
Applicable(d, a) ==
    IF a.kind = "CreateTab" THEN ~d[a.name].present ELSE d[a.name].present

\* The directory after a WorkspaceAction is carried out on it.
ApplyAction(d, a) ==
    CASE a.kind = "CreateTab" -> [d EXCEPT ![a.name] = TabDir("", FALSE)]
      [] a.kind = "RemoveTab" -> [d EXCEPT ![a.name] = Absent]
      [] a.kind = "ChangeTabUrl" -> [d EXCEPT ![a.name].url = a.url]
      [] a.kind = "OpenTab" -> [d EXCEPT ![a.name].is_open = TRUE]
      [] a.kind = "CloseTab" -> [d EXCEPT ![a.name].is_open = FALSE]

\* A change detected by file_watcher::async_watch: the action, and who made
\* the change (a session, or 0 for another process).
Event(a, c) == [action |-> a, cause |-> c]

\* async_watch (line 190) sends each change of the directory it watches on
\* its task's channel (line 187).
Notify(ts, path, ev) ==
    [i \in DOMAIN ts |->
        IF ts[i].watching /\ ts[i].path = path
          THEN [ts[i] EXCEPT !.rx = Append(@, ev), !.seen = Append(@, ev)]
          ELSE ts[i]]

\* Mutant of ApplyToFs: an Err of apply_action_to_fs is unwrapped and ends
\* the session's task.
ApplyToFsFatal(s) ==
    /\ pc[s] = "act_apply"
    /\ \E ok \in BOOLEAN :
        /\ ok => Applicable(disk, cur[s].action)
        /\ IF ok
             THEN /\ disk' = ApplyAction(disk, cur[s].action)
                  /\ tasks' = Notify(tasks, workspace[s].path, Event(cur[s].action, s))
                  /\ pc' = [pc EXCEPT ![s] = "idle"]
             ELSE /\ UNCHANGED <<disk, tasks>>
                  /\ pc' = [pc EXCEPT ![s] = "panicked"]
    /\ UNCHANGED <<storeVars, snapshot, cur, workspace,
                   ignore_next_action, inVars, outVars>>

\* Lines 136-143: apply_action_to_fs(&workspace.path, &action); an Err is
\* printed. The flag's write guard is dropped at the end of the arm.
ApplyToFs(s) ==
    /\ pc[s] = "act_apply"
    /\ \E ok \in BOOLEAN :
        /\ ok => Applicable(disk, cur[s].action)
        /\ IF ok
             THEN /\ disk' = ApplyAction(disk, cur[s].action)
                  /\ tasks' = Notify(tasks, workspace[s].path, Event(cur[s].action, s))
             ELSE UNCHANGED <<disk, tasks>>
    /\ pc' = [pc EXCEPT ![s] = "idle"]
    /\ UNCHANGED <<storeVars, snapshot, cur, workspace,
                   ignore_next_action, inVars, outVars>>

\* Another process changes the workspace directory.
ExternalChange(a) ==
    /\ Applicable(disk, a)
    /\ ApplyAction(disk, a) # disk
    /\ disk' = ApplyAction(disk, a)
    /\ tasks' = Notify(tasks, WorkspacePath, Event(a, 0))
    /\ UNCHANGED <<storeVars, loopVars, inVars, outVars>>

(* ------------------------------- start --------------------------------- *)

\* start, line 157: get_all_workspaces takes a read guard.
StartAcquire(s) ==
    /\ pc[s] = "start_lock"
    /\ CanRead
    /\ lockReaders' = lockReaders \cup {s}
    /\ pc' = [pc EXCEPT ![s] = "start_read"]
    /\ UNCHANGED <<workspaces, lockWriter, loaderPc, fsVars, snapshot, cur, workspace,
                   ignore_next_action, inVars, outVars, tasks>>

\* The list start resolves the id in: the registry as it is now (line 157),
\* not the snapshot browser_connected took.
StartList(s) == workspaces

\* Lines 157-163: copy the Vec, drop the guard, find the workspace; the
\* unwrap_or_else of line 162 panics when the id is not in the list.
StartResolve(s) ==
    /\ pc[s] = "start_read"
    /\ lockReaders' = lockReaders \ {s}
    /\ IF Found(StartList(s), cur[s].id)
         THEN /\ workspace' = [workspace EXCEPT ![s] = Find(StartList(s), cur[s].id)]
              /\ pc' = [pc EXCEPT ![s] = "start_send"]
         ELSE /\ pc' = [pc EXCEPT ![s] = "panicked"]
              /\ UNCHANGED workspace
    /\ UNCHANGED <<workspaces, lockWriter, loaderPc, fsVars, snapshot, cur,
                   ignore_next_action, inVars, outVars, tasks>>

\* The watch task of lines 186-214 as spawned: its session, its workspace,
\* the directory watched, the channel of line 187, and whether async_watch
\* is still running.
NewTask(s, w) ==
    [owner |-> s, ws |-> w.id, path |-> w.path, rx |-> <<>>, seen |-> <<>>,
     watching |-> TRUE]

\* Mutant of StartSend: the watch task is spawned, LoadWorkspace is not sent.
StartSpawnWithoutLoad(s) ==
    /\ pc[s] = "start_send"
    /\ tasks' = Append(tasks, NewTask(s, workspace[s]))
    /\ pc' = [pc EXCEPT ![s] = "idle"]
    /\ UNCHANGED <<storeVars, fsVars, snapshot, cur, workspace, ignore_next_action,
                   inVars, outVars>>

\* Lines 174-196: send LoadWorkspace (an Err is printed), then spawn the
\* watch task and its file watcher.
StartSend(s) ==
    /\ pc[s] = "start_send"
    /\ ChannelSend(s, Entry(LoadWorkspaceMessage(workspace[s]), 0, 0))
    /\ tasks' = Append(tasks, NewTask(s, workspace[s]))
    /\ pc' = [pc EXCEPT ![s] = "idle"]
    /\ UNCHANGED <<storeVars, fsVars, snapshot, cur, workspace, ignore_next_action, inVars>>

(* ---------------------------- watch tasks ------------------------------ *)

\* Mutant of WatchForward: the action is sent with try_send and is lost when
\* the browser's channel is full.
WatchForwardTrySend(t) ==
    /\ t \in DOMAIN tasks
    /\ tasks[t].rx # <<>>
    /\ LET s == tasks[t].owner
           ev == Head(tasks[t].rx)
       IN  IF outClosed[s] \/ outLen[s] < OutCap
             THEN ChannelSend(s, Entry(WorkspaceActionMessage(ev.action), t, ev.cause))
             ELSE UNCHANGED outVars
    /\ tasks' = [tasks EXCEPT ![t].rx = Tail(@)]
    /\ UNCHANGED <<storeVars, fsVars, loopVars, inVars>>

\* Lines 197-213: take the next action from the file watcher and send it to
\* the browser (an Err is printed). The flag is not read (lines 199-205 are
\* commented out).
WatchForward(t) ==
    /\ t \in DOMAIN tasks
    /\ tasks[t].rx # <<>>
    /\ LET ev == Head(tasks[t].rx) IN
        ChannelSend(tasks[t].owner,
                    Entry(WorkspaceActionMessage(ev.action), t, ev.cause))
    /\ tasks' = [tasks EXCEPT ![t].rx = Tail(@)]
    /\ UNCHANGED <<storeVars, fsVars, loopVars, inVars>>

\* Lines 190-194: async_watch returns, its sender is dropped; the loop of
\* line 197 ends once the channel is empty.
WatchEnded(t) ==
    /\ t \in DOMAIN tasks
    /\ tasks[t].watching
    /\ tasks' = [tasks EXCEPT ![t].watching = FALSE]
    /\ UNCHANGED <<storeVars, fsVars, loopVars, inVars, outVars>>

\* A watch task is running until its watcher has ended and its channel is
\* empty (rx.recv() yields None).
Running(t) == tasks[t].watching \/ tasks[t].rx # <<>>

(* --------------------------- specification ----------------------------- *)

Next ==
    \/ \E l \in Loaders : LoadAcquire(l)
    \/ \E l \in Loaders : LoadPush(l)
    \/ \E s \in Sessions : Connect(s)
    \/ \E s \in Sessions : ConnectSnapshot(s)
    \/ \E s \in Sessions : SendAllWorkspaces(s)
    \/ \E s \in Sessions, m \in FromBrowserMessages : BrowserSend(s, m)
    \/ \E s \in Sessions : BrowserReceive(s)
    \/ \E s \in Sessions : BrowserDisconnect(s)
    \/ \E s \in Sessions : Receive(s)
    \/ \E s \in Sessions : LoopEnd(s)
    \/ \E s \in Sessions : SetIgnore(s)
    \/ \E s \in Sessions : ApplyToFs(s)
    \/ \E s \in Sessions : StartAcquire(s)
    \/ \E s \in Sessions : StartResolve(s)
    \/ \E s \in Sessions : StartSend(s)
    \/ \E a \in ExternalActions : ExternalChange(a)
    \/ \E t \in 1..MaxMsgs : WatchForward(t)
    \/ \E t \in 1..MaxMsgs : WatchEnded(t)

Spec == Init /\ [][Next]_vars

(* ------------------------------ helpers -------------------------------- *)

\* Positions of browser_connected after the send of AllWorkspaces.
Connected(s) == pc[s] \notin {"new", "conn_read", "send_all"}

\* The session is inside start() for the message it took last, or panicked there.
InStart(s) ==
    /\ cur[s].type = "StartWorkspace"
    /\ pc[s] \in {"start_lock", "start_read", "start_send", "panicked"}

\* The watch tasks a session's start() calls have spawned.
TasksOf(s) == {t \in DOMAIN tasks : tasks[t].owner = s}

\* The workspace is started on the session: a start() for it has completed.
Started(s, id) == \E t \in TasksOf(s) : tasks[t].ws = id

NumStarts(s, id) ==
    Cardinality({i \in DOMAIN processed[s] :
        processed[s][i].type = "StartWorkspace" /\ processed[s][i].id = id})

NumLoads(s, id) ==
    Cardinality({i \in DOMAIN sent[s] :
        /\ sent[s][i].msg.type = "LoadWorkspace"
        /\ sent[s][i].msg.workspace.id = id})

Forwarded(s) == {i \in DOMAIN sent[s] : sent[s][i].msg.type = "WorkspaceAction"}

(* ------------------------------- claims -------------------------------- *)

\* C1: handling a StartWorkspace or WorkspaceAction whose id is not in the
\* session's snapshot never panics and never reaches the steps that send
\* LoadWorkspace, spawn a watch task, set the flag or write the directory.
C1_UnknownIdIgnored ==
    \A s \in Sessions :
        ~Found(snapshot[s], cur[s].id)
            => pc[s] \notin {"panicked", "start_send", "act_flag", "act_apply"}

\* C2: the browser never receives, as an outbound WorkspaceAction, the echo
\* of an action it sent itself: every forwarded action is a change some
\* other process made.
C2_NoEcho ==
    \A s \in Sessions : \A i \in Forwarded(s) : sent[s][i].cause # s

\* C3: on a session's channel every WorkspaceAction forwarded for a
\* workspace comes after a LoadWorkspace for that workspace, and while the
\* channel is open each completed StartWorkspace(id) has sent exactly one
\* LoadWorkspace for id (never more than one per StartWorkspace).
C3_LoadBeforeActions ==
    \A s \in Sessions :
        /\ \A i \in Forwarded(s) :
             \E j \in 1..(i - 1) :
                /\ sent[s][j].msg.type = "LoadWorkspace"
                /\ sent[s][j].msg.workspace.id = tasks[sent[s][i].task].ws
        /\ \A id \in ClientIds :
             /\ NumLoads(s, id) <= NumStarts(s, id)
             /\ (~outClosed[s] /\ ~InStart(s)) => NumLoads(s, id) = NumStarts(s, id)

\* C3 witness: an action has been forwarded on an open channel.
C3_Witness ==
    \E s \in Sessions : Forwarded(s) # {} /\ ~outClosed[s]

\* The watch task was spawned before the browser disconnected: the
\* LoadWorkspace of its start() was accepted by the channel.
SpawnedConnected(t) ==
    LET s == tasks[t].owner IN
    Cardinality({u \in TasksOf(s) : u <= t})
        <= Cardinality({i \in DOMAIN sent[s] : sent[s][i].msg.type = "LoadWorkspace"})

\* C4: once the browser has disconnected, a watch task of the session that
\* was running at that time attempts no further send on the closed channel
\* (it takes nothing more from its file watcher to send).
C4_NoSendAfterDisconnect ==
    [][\A t \in DOMAIN tasks :
        (outClosed[tasks[t].owner] /\ SpawnedConnected(t))
            => Len(tasks'[t].rx) >= Len(tasks[t].rx)]_vars

\* C5: the first message on a session's channel is AllWorkspaces carrying
\* the snapshot taken at connect, no later message is an AllWorkspaces, it
\* is sent (while the channel is open) before the loop starts, and no
\* inbound message is taken before that send.
C5_AllWorkspacesFirst ==
    \A s \in Sessions :
        /\ sent[s] # <<>> => sent[s][1].msg = AllWorkspacesMessage(snapshot[s])
        /\ \A i \in DOMAIN sent[s] : i > 1 => sent[s][i].msg.type # "AllWorkspaces"
        /\ processed[s] # <<>> => Connected(s)
        /\ (Connected(s) /\ ~outClosed[s]) => sent[s] # <<>>

\* C5 witness: AllWorkspaces was sent, the registry has changed since the
\* snapshot, and an inbound message has been taken.
C5_Witness ==
    \E s \in Sessions :
        /\ sent[s] # <<>>
        /\ processed[s] # <<>>
        /\ snapshot[s] # workspaces

\* C6: the loop takes a connection's messages in arrival order, and one at
\* a time: the message being handled is the last one taken, and every
\* StartWorkspace taken before it has run to completion (its watch task is
\* spawned) before the next message is taken.
C6_InOrderOneAtATime ==
    \A s \in Sessions :
        /\ arrived[s] = processed[s] \o inbound[s]
        /\ pc[s] \notin {"new", "conn_read", "send_all", "idle", "done"}
             => /\ processed[s] # <<>>
                /\ cur[s] = processed[s][Len(processed[s])]
        /\ Cardinality(TasksOf(s)) =
             Cardinality({i \in DOMAIN processed[s] :
                            processed[s][i].type = "StartWorkspace"})
               - (IF InStart(s) THEN 1 ELSE 0)

\* C6 witness: a second message waits in the stream while the first, a
\* StartWorkspace, is still being handled.
C6_Witness ==
    \E s \in Sessions :
        /\ Len(processed[s]) = 1
        /\ Len(inbound[s]) = 1
        /\ pc[s] = "start_send"

\* The workspace records a message to the browser carries.
Carried(m) ==
    CASE m.type = "AllWorkspaces" -> {m.workspaces[k] : k \in DOMAIN m.workspaces}
      [] m.type = "LoadWorkspace" -> {m.workspace}
      [] OTHER -> {}

\* C7: no message sent to the browser (AllWorkspaces, LoadWorkspace,
\* WorkspaceAction) carries the directory path of a workspace.
C7_NoPathExposed ==
    \A s \in Sessions : \A i \in DOMAIN sent[s] :
        \A w \in Carried(sent[s][i].msg) : "path" \notin DOMAIN w

\* C8: StartWorkspace resolves ids in the snapshot taken at connect, as
\* WorkspaceAction does: start() finds a workspace exactly when the snapshot
\* holds the id, and it is the snapshot's workspace.
C8_StartUsesSnapshot ==
    \A s \in Sessions :
        /\ pc[s] = "start_send"
             => /\ Found(snapshot[s], cur[s].id)
                /\ workspace[s] = Find(snapshot[s], cur[s].id)
        /\ (pc[s] = "panicked" /\ cur[s].type = "StartWorkspace")
             => ~Found(snapshot[s], cur[s].id)

\* C9: a WorkspaceAction for a workspace that no StartWorkspace has started
\* on the session does not set the flag and is not applied to the directory.
C9_UnstartedIgnored ==
    \A s \in Sessions :
        pc[s] = "act_apply" => Started(s, cur[s].id)

\* Loaders holding the write guard.
Writers == {l \in Loaders : loaderPc[l] = "locked"}

\* A list is the registry as it was after some whole number of pushes.
IsRegistryPrefix(list) ==
    /\ Len(list) <= Len(workspaces)
    /\ list = SubSeq(workspaces, 1, Len(list))

\* C10: at most one load_workspaces holds the write guard and none does
\* while a get_all_workspaces holds a read guard; every list
\* get_all_workspaces returned is the registry as it stood between two
\* whole pushes; and a returned list does not change when the registry is
\* mutated later.
C10_RegistryExclusive ==
    /\ [](/\ Cardinality(Writers) <= 1
          /\ Writers # {} => lockReaders = {}
          /\ \A s \in Sessions :
                /\ IsRegistryPrefix(snapshot[s])
                /\ pc[s] = "start_send" => workspace[s] \in
                        {workspaces[i] : i \in DOMAIN workspaces})
    /\ [][\A s \in Sessions :
            snapshot'[s] # snapshot[s] => pc[s] = "conn_read"]_vars

\* C10 witness: a load_workspaces holds the write guard while a session
\* waits in get_all_workspaces for its read guard.
C10_Witness ==
    \E s \in Sessions : Writers # {} /\ pc[s] = "start_lock"

\* C11: a send of AllWorkspaces or LoadWorkspace by the control loop never
\* has to wait: whenever the loop is at such a send, the send can complete
\* at once, also when the browser has taken nothing from its channel.
C11_SendNeverBlocks ==
    \A s \in Sessions :
        pc[s] \in {"send_all", "start_send"}
            => (outClosed[s] \/ outLen[s] < OutCap)
\* The names of the tabs of a workspace record.
TabNamesOf(w) == {w.tabs[k].name : k \in DOMAIN w.tabs}

\* C12: once a watch task has forwarded a CreateTab(name) that another
\* process made in a workspace, the registry holds that tab: every
\* LoadWorkspace sent for the workspace after that carries a tab of that name
\* (with the URL of a forwarded ChangeTabUrl(name, url), if one followed).
C12_StoreFollowsDisk ==
    \A s \in Sessions : \A i \in Forwarded(s) : \A j \in DOMAIN sent[s] :
        LET e == sent[s][i]
            m == sent[s][j].msg
        IN  (/\ i < j
             /\ e.cause = 0
             /\ m.type = "LoadWorkspace"
             /\ m.workspace.id = tasks[e.task].ws)
            => /\ e.msg.action.kind = "CreateTab"
                    => e.msg.action.name \in TabNamesOf(m.workspace)
               /\ e.msg.action.kind = "ChangeTabUrl"
                    => \E k \in DOMAIN m.workspace.tabs :
                          /\ m.workspace.tabs[k].name = e.msg.action.name
                          /\ m.workspace.tabs[k].url = e.msg.action.url
\* The watch tasks holding, in their channel, a change that a write of the
\* session made.
OwnWritesSeen(s) ==
    {t \in DOMAIN tasks : \E k \in DOMAIN tasks[t].rx : tasks[t].rx[k].cause = s}

\* C13: the flag is set before apply_action_to_fs is called: it is set
\* whenever the loop is at the apply call, and whenever a write of the
\* session has reached the directory (a watcher has reported it, or it was
\* forwarded).
C13_FlagBeforeApply ==
    \A s \in Sessions :
        /\ pc[s] = "act_apply" => ignore_next_action[s]
        /\ OwnWritesSeen(s) # {} => ignore_next_action[s]
        /\ (\E i \in Forwarded(s) : sent[s][i].cause = s) => ignore_next_action[s]

\* C13 witness: a write of the session has reached the directory and a
\* watch task holds the change.
C13_Witness ==
    \E s \in Sessions : OwnWritesSeen(s) # {}
\* The flag a watch task holds: start() is handed a clone of the session's
\* one Arc (lines 118-120, 153).
FlagOf(t) == ignore_next_action[tasks[t].owner]

\* C14: a watch task that takes a detected action while the flag is set
\* clears the flag and discards the action; when the flag is not set it
\* forwards the action.
C14_FlagConsumed ==
    [][\A t \in DOMAIN tasks :
        Len(tasks'[t].rx) < Len(tasks[t].rx)
            => LET s == tasks[t].owner IN
               IF FlagOf(t)
                 THEN ~ignore_next_action'[s] /\ sent'[s] = sent[s]
                 ELSE outClosed[s] \/ sent'[s] # sent[s]]_vars

\* A registry after two calls of load_workspaces on an empty directory.
TwoWorkspaces ==
    LET first == new_from_fs(WorkspacePath, [n \in TabNames |-> Absent], <<>>)
    IN  <<first, new_from_fs(WorkspacePath, [n \in TabNames |-> Absent], <<first>>)>>

\* The sessions and watch tasks over a registry that holds two workspaces
\* and is not loaded again.
InitTwo ==
    /\ workspaces = TwoWorkspaces
    /\ lockWriter = 0
    /\ lockReaders = {}
    /\ loaderPc = [l \in Loaders |-> "idle"]
    /\ disk = [n \in TabNames |-> Absent]
    /\ pc = [s \in Sessions |-> "new"]
    /\ snapshot = [s \in Sessions |-> <<>>]
    /\ cur = [s \in Sessions |-> NoMsg]
    /\ workspace = [s \in Sessions |-> NoWorkspace]
    /\ ignore_next_action = [s \in Sessions |-> FALSE]
    /\ inbound = [s \in Sessions |-> <<>>]
    /\ arrived = [s \in Sessions |-> <<>>]
    /\ processed = [s \in Sessions |-> <<>>]
    /\ inEnded = [s \in Sessions |-> FALSE]
    /\ outClosed = [s \in Sessions |-> FALSE]
    /\ outLen = [s \in Sessions |-> 0]
    /\ sent = [s \in Sessions |-> <<>>]
    /\ failedSends = [s \in Sessions |-> 0]
    /\ tasks = <<>>

NextTwo ==
    \/ \E s \in Sessions : Connect(s)
    \/ \E s \in Sessions : ConnectSnapshot(s)
    \/ \E s \in Sessions : SendAllWorkspaces(s)
    \/ \E s \in Sessions, m \in FromBrowserMessages : BrowserSend(s, m)
    \/ \E s \in Sessions : BrowserReceive(s)
    \/ \E s \in Sessions : BrowserDisconnect(s)
    \/ \E s \in Sessions : Receive(s)
    \/ \E s \in Sessions : LoopEnd(s)
    \/ \E s \in Sessions : SetIgnore(s)
    \/ \E s \in Sessions : ApplyToFs(s)
    \/ \E s \in Sessions : StartAcquire(s)
    \/ \E s \in Sessions : StartResolve(s)
    \/ \E s \in Sessions : StartSend(s)
    \/ \E a \in ExternalActions : ExternalChange(a)
    \/ \E t \in 1..MaxMsgs : WatchForward(t)
    \/ \E t \in 1..MaxMsgs : WatchEnded(t)

SpecTwo == InitTwo /\ [][NextTwo]_vars

\* C15: a WorkspaceAction for workspace A sets only A's flag: the flag held
\* by the watch task of another workspace B of the same session does not
\* change when the loop sets the flag for A.
C15_FlagPerWorkspace ==
    [][\A s \in Sessions : \A t \in TasksOf(s) :
        (/\ pc[s] = "act_flag"
         /\ pc'[s] = "act_apply"
         /\ tasks[t].ws # cur[s].id)
            => FlagOf(t)' = FlagOf(t)]_vars
\* C16: a failed apply_action_to_fs is not fatal: the step that leaves the
\* apply without changing the directory returns the loop to its head, leaves
\* the flag set, hands no action to any watch task and sends nothing.
C16_FailedApplyNonFatal ==
    [][\A s \in Sessions :
        (pc[s] = "act_apply" /\ pc'[s] # "act_apply" /\ disk' = disk)
            => /\ pc'[s] = "idle"
               /\ ignore_next_action'[s]
               /\ tasks' = tasks
               /\ sent' = sent]_vars

\* The first message was a WorkspaceAction whose apply failed (the tab it
\* creates is absent) and the loop has taken the message after it.
C16_Witness ==
    \E s \in Sessions :
        /\ Len(processed[s]) >= 2
        /\ processed[s][1].type = "WorkspaceAction"
        /\ processed[s][1].action = CreateTab("x")
        /\ disk["x"] = Absent
        /\ ignore_next_action[s]
        /\ pc[s] # "panicked"
\* C17: a failed send ends the loop that issued it: a send of the control
\* loop that fails, while the session has no watch task that could have
\* failed one before, is the first failed send of the session.
C17_FailedSendEndsLoop ==
    [][\A s \in Sessions :
        (/\ pc[s] \in {"send_all", "start_send"}
         /\ pc'[s] # pc[s]
         /\ failedSends'[s] > failedSends[s]
         /\ TasksOf(s) = {})
            => failedSends[s] = 0]_vars

\* The watch tasks of a session that are running for a workspace.
WatchersOf(s, id) == {t \in TasksOf(s) : tasks[t].ws = id /\ Running(t)}

\* C18: a session whose client is connected has at most one running watch
\* task per workspace.
C18_OneWatchTask ==
    \A s \in Sessions : \A id \in ClientIds :
        ~inEnded[s] => Cardinality(WatchersOf(s, id)) <= 1
\* One step of browser_connected or of the start() it awaits; the task is
\* sequential, so at most one of them is possible at a time.
LoopStep(s) ==
    \/ ConnectSnapshot(s)
    \/ SendAllWorkspaces(s)
    \/ Receive(s)
    \/ LoopEnd(s)
    \/ SetIgnore(s)
    \/ ApplyToFs(s)
    \/ StartAcquire(s)
    \/ StartResolve(s)
    \/ StartSend(s)

\* The runtime keeps polling a session's task: its next step is taken once
\* it stays possible. Nothing is assumed of the browser, the watch tasks or
\* the file watchers.
LoopFairness == \A s \in Sessions : WF_vars(LoopStep(s))

\* The sessions over a loaded registry, scheduled fairly. No loader runs, so
\* the read guard start() takes (line 157) is granted at once.
FairSpecTwo == SpecTwo /\ LoopFairness

\* C19: once the inbound stream of a connection has ended, browser_connected
\* eventually terminates, whatever the watch tasks do.
C19_LoopTerminates ==
    \A s \in Sessions : inEnded[s] ~> (pc[s] \in {"done", "panicked"})

\* browser_connected has returned while a watch task it spawned still runs.
C19_Witness ==
    \E s \in Sessions :
        /\ inEnded[s]
        /\ pc[s] = "done"
        /\ \E t \in TasksOf(s) : Running(t)
\* The actions a watch task has sent to the browser, in the order sent.
ForwardedBy(t) ==
    LET es == SelectSeq(sent[tasks[t].owner], LAMBDA e : e.task = t)
    IN  [k \in DOMAIN es |-> Event(es[k].msg.action, es[k].cause)]

IsPrefix(p, q) == Len(p) <= Len(q) /\ SubSeq(q, 1, Len(p)) = p

\* C20: while the browser's channel is open, the actions a watch task has
\* forwarded followed by those it still holds are exactly the actions its
\* watcher detected, in detection order: none lost, doubled or reordered.
\* What it has forwarded is at all times a prefix of what was detected.
C20_ForwardInOrder ==
    \A t \in DOMAIN tasks :
        /\ IsPrefix(ForwardedBy(t), tasks[t].seen)
        /\ ~outClosed[tasks[t].owner]
            => ForwardedBy(t) \o tasks[t].rx = tasks[t].seen

\* A watch task with an open channel has forwarded one detected action and
\* holds the next.
C20_Witness ==
    \E t \in DOMAIN tasks :
        /\ ~outClosed[tasks[t].owner]
        /\ Len(ForwardedBy(t)) >= 1
        /\ tasks[t].rx # <<>>
====
